---- MODULE Spec2Model ----
(***************************************************************************)
(* Model of the Emakua translation server: the translation pipeline        *)
(* (translation_pipeline.py), the resource provider with its TTL cache     *)
(* (supabase_client_strict.py) and the static-asset proxy (app.py).        *)
(*                                                                         *)
(* A Python str is a sequence of one-character strings; a dict is the      *)
(* sequence of its items [k |-> key, v |-> value] in insertion order.      *)
(***************************************************************************)
EXTENDS Integers, Sequences, FiniteSets, TLC

(***************************************************************************)
(* Characters                                                              *)
(***************************************************************************)

\* U+0301 COMBINING ACUTE ACCENT, the one code point of category Mn here.
Combining == "U+0301"

Whitespace == {" ", "\t"}

PunctChars == {".", ",", "!", "?", ";", ":"}

IsSpace(ch) == ch \in Whitespace

IsPunctChar(ch) == ch \in PunctChars

LowerLetters ==
    <<"a", "b", "c", "e", "h", "i", "k", "l", "m", "n", "s", "t", "u", "w", "y", "z", "á">>

UpperLetters ==
    <<"A", "B", "C", "E", "H", "I", "K", "L", "M", "N", "S", "T", "U", "W", "Y", "Z", "Á">>

\* str.lower() on one character.
LowerCh(ch) ==
    IF \E i \in 1..Len(UpperLetters) : UpperLetters[i] = ch
    THEN LowerLetters[CHOOSE i \in 1..Len(UpperLetters) : UpperLetters[i] = ch]
    ELSE ch

\* str.upper() on one character.
UpperCh(ch) ==
    IF \E i \in 1..Len(LowerLetters) : LowerLetters[i] = ch
    THEN UpperLetters[CHOOSE i \in 1..Len(LowerLetters) : LowerLetters[i] = ch]
    ELSE ch

\* unicodedata.normalize("NFD", ch): canonical decomposition of one character.
NFDCh(ch) ==
    CASE ch = "á" -> <<"a", Combining>>
      [] ch = "Á" -> <<"A", Combining>>
      [] OTHER -> <<ch>>

\* unicodedata.category(ch) == "Mn"
IsMn(ch) == ch = Combining

(***************************************************************************)
(* Strings and lists                                                       *)
(***************************************************************************)

RECURSIVE Concat(_)
\* The concatenation of a sequence of sequences.
Concat(ss) == IF ss = <<>> THEN <<>> ELSE Head(ss) \o Concat(Tail(ss))

\* x in list
In(x, list) == \E i \in 1..Len(list) : list[i] = x

\* list[:n]
Take(list, n) == SubSeq(list, 1, IF Len(list) < n THEN Len(list) ELSE n)

\* str.lower()
Lower(s) == [i \in 1..Len(s) |-> LowerCh(s[i])]

RECURSIVE LStrip(_)
LStrip(s) == IF s # <<>> /\ IsSpace(Head(s)) THEN LStrip(Tail(s)) ELSE s

RECURSIVE RStrip(_)
RStrip(s) ==
    IF s # <<>> /\ IsSpace(s[Len(s)]) THEN RStrip(SubSeq(s, 1, Len(s) - 1)) ELSE s

\* str.strip()
Strip(s) == RStrip(LStrip(s))

\* sentence[0].upper() + sentence[1:], applied when the string is not empty.
Capitalize(s) == IF s = <<>> THEN s ELSE <<UpperCh(Head(s))>> \o Tail(s)

RECURSIVE Join(_, _)
\* sep.join(parts)
Join(sep, parts) ==
    IF parts = <<>> THEN <<>>
    ELSE IF Len(parts) = 1 THEN Head(parts)
    ELSE Head(parts) \o sep \o Join(sep, Tail(parts))

RECURSIVE Split(_)
\* str.split(): the maximal runs of non-whitespace characters.
Split(s) ==
    LET t == LStrip(s)
        n == IF \E i \in 1..Len(t) : IsSpace(t[i])
             THEN (CHOOSE i \in 1..Len(t) :
                      IsSpace(t[i]) /\ \A j \in 1..(i - 1) : ~IsSpace(t[j])) - 1
             ELSE Len(t)
    IN  IF t = <<>> THEN <<>>
        ELSE <<SubSeq(t, 1, n)>> \o Split(SubSeq(t, n + 1, Len(t)))

(***************************************************************************)
(* dict                                                                    *)
(***************************************************************************)

\* key in d
Has(d, key) == \E i \in 1..Len(d) : d[i].k = key

\* d[key]
Get(d, key) == d[CHOOSE i \in 1..Len(d) : d[i].k = key].v

\* d[key] = val: an existing key keeps its place, a new one goes last.
Put(d, key, val) ==
    IF Has(d, key)
    THEN [i \in 1..Len(d) |-> IF d[i].k = key THEN [k |-> key, v |-> val] ELSE d[i]]
    ELSE Append(d, [k |-> key, v |-> val])

\* d.keys()
Keys(d) == [i \in 1..Len(d) |-> d[i].k]

RECURSIVE Merge(_, _)
\* {**a, **b}
Merge(a, b) == IF b = <<>> THEN a ELSE Merge(Put(a, Head(b).k, Head(b).v), Tail(b))

\* A JSON value that is not a string, as an item of a list of forms.
NonStr == <<"<non-string>">>

\* isinstance(v, str)
IsStr(v) == v # NonStr

(***************************************************************************)
(* translation_pipeline.py: normalisation and punctuation                  *)
(***************************************************************************)

_normalize_pt(text) ==
    LET low == Lower(text)
        nfd == Concat([i \in 1..Len(low) |-> NFDCh(low[i])])
    IN  SelectSeq(nfd, LAMBDA ch : ~IsMn(ch))

\* re.fullmatch(r"[.,!?;:]+", tok)
_is_punctuation(tok) == tok # <<>> /\ \A i \in 1..Len(tok) : IsPunctChar(tok[i])

\* word.strip().lower(), the key of the Emakua side
EmKey(word) == Lower(Strip(word))

(***************************************************************************)
(* translation_pipeline.py: _build_indexes                                 *)
(***************************************************************************)

RECURSIVE AppendNew(_, _)
\* for c in items: if c not in target: target.append(c)
AppendNew(target, items) ==
    IF items = <<>> THEN target
    ELSE AppendNew(IF In(Head(items), target) THEN target
                   ELSE Append(target, Head(items)),
                   Tail(items))

RECURSIVE ReverseIndex(_, _, _)
\* for em_form in forms: index.setdefault(em_form.strip().lower(), []) gets
\* word appended unless it is there already; a blank key is skipped.
ReverseIndex(index, forms, word) ==
    IF forms = <<>> THEN index
    ELSE LET em_key == EmKey(Head(forms))
             target_em == IF Has(index, em_key) THEN Get(index, em_key) ELSE <<>>
             next == IF em_key = <<>> THEN index
                     ELSE Put(index, em_key, AppendNew(target_em, <<word>>))
         IN  ReverseIndex(next, Tail(forms), word)

\* cleaned: the values that are strings and not blank, stripped
CleanedForms(vals) ==
    LET strs == SelectSeq(vals, LAMBDA v : IsStr(v) /\ Strip(v) # <<>>)
    IN  [i \in 1..Len(strs) |-> Strip(strs[i])]

\* One pass of the loop over the lexicon items.
LexiconStep(acc, pt_word, vals) ==
    LET norm_pt == _normalize_pt(pt_word)
        spell == IF Has(acc.spell_vocab_pt, norm_pt) THEN acc.spell_vocab_pt
                 ELSE Put(acc.spell_vocab_pt, norm_pt, pt_word)
        cleaned == CleanedForms(vals)
        target_pt == IF Has(acc.lexicon_pt, norm_pt) THEN Get(acc.lexicon_pt, norm_pt)
                     ELSE <<>>
    IN  IF cleaned = <<>> THEN [acc EXCEPT !.spell_vocab_pt = spell]
        ELSE [acc EXCEPT
                !.spell_vocab_pt = spell,
                !.lexicon_pt = Put(acc.lexicon_pt, norm_pt, AppendNew(target_pt, cleaned)),
                !.lexicon_em = ReverseIndex(acc.lexicon_em, cleaned, pt_word)]

\* em_forms: the forms that are strings, stripped (a blank one stays, as "")
PronounForms(forms) ==
    LET strs == SelectSeq(forms, IsStr)
    IN  [i \in 1..Len(strs) |-> Strip(strs[i])]

\* One pass of the loop over the merged pronoun items.
PronounStep(acc, pt_pron, forms) ==
    LET norm_pt == _normalize_pt(pt_pron)
        em_forms == PronounForms(forms)
    IN  IF em_forms = <<>> THEN acc
        ELSE [acc EXCEPT
                !.pronoun_pt = Put(acc.pronoun_pt, norm_pt, em_forms),
                !.spell_vocab_pt = IF Has(acc.spell_vocab_pt, norm_pt)
                                   THEN acc.spell_vocab_pt
                                   ELSE Put(acc.spell_vocab_pt, norm_pt, pt_pron),
                !.pronoun_em = ReverseIndex(acc.pronoun_em, em_forms, pt_pron)]

RECURSIVE LexiconLoop(_, _)
LexiconLoop(acc, items) ==
    IF items = <<>> THEN acc
    ELSE LexiconLoop(LexiconStep(acc, Head(items).k, Head(items).v), Tail(items))

RECURSIVE PronounLoop(_, _)
PronounLoop(acc, items) ==
    IF items = <<>> THEN acc
    ELSE PronounLoop(PronounStep(acc, Head(items).k, Head(items).v), Tail(items))

EmptyIndexes ==
    [lexicon_pt |-> <<>>, pronoun_pt |-> <<>>, spell_vocab_pt |-> <<>>,
     lexicon_em |-> <<>>, pronoun_em |-> <<>>]

\* The five indexes of a resource bundle [grammar, pronouns, lexicon].
_build_indexes(resources) ==
    PronounLoop(LexiconLoop(EmptyIndexes, resources.lexicon),
                Merge(resources.pronouns.personal, resources.pronouns.possessive))

(***************************************************************************)
(* translation_pipeline.py: spelling correction and lookup                 *)
(***************************************************************************)

Min2(x, y) == IF x < y THEN x ELSE y

RECURSIVE LevRowInsertTwo(_, _, _, _)
\* LevRow with an insertion at the cost of 2.
LevRowInsertTwo(ca, b, prev, cur) ==
    LET j == Len(cur)
    IN  IF j > Len(b) THEN cur
        ELSE LET cost == IF ca = b[j] THEN 0 ELSE 1
             IN  LevRowInsertTwo(ca, b, prev,
                    Append(cur, Min2(Min2(prev[j + 1] + 1, cur[j] + 2), prev[j] + cost)))

RECURSIVE LevRow(_, _, _, _)
\* cur, the row of character ca, given prev, the row before it; cur holds the
\* entries 0..j-1 when entry j is computed (sequences are 1-based).
LevRow(ca, b, prev, cur) ==
    LET j == Len(cur)
        cost == IF ca = b[j] THEN 0 ELSE 1
    IN  IF j > Len(b) THEN cur
        ELSE LevRow(ca, b, prev,
                    Append(cur, Min2(Min2(prev[j + 1] + 1, cur[j] + 1), prev[j] + cost)))

RECURSIVE LevRows(_, _, _, _)
LevRows(a, b, i, prev) ==
    IF i > Len(a) THEN prev
    ELSE LevRows(a, b, i + 1, LevRow(a[i], b, prev, <<i>>))

_levenshtein(a, b) ==
    IF a = b THEN 0
    ELSE IF a = <<>> THEN Len(b)
    ELSE IF b = <<>> THEN Len(a)
    ELSE LevRows(a, b, 1, [j \in 1..(Len(b) + 1) |-> j - 1])[Len(b) + 1]

\* The distance up to which a correction is accepted.
MaxAllowed(norm) == IF Len(norm) <= 5 THEN 2 ELSE 3

RECURSIVE BestKeyLast(_, _, _)
\* BestKey with d <= best_dist: the last of the nearest keys wins.
BestKeyLast(norm, keys, best) ==
    IF keys = <<>> THEN best
    ELSE LET d == _levenshtein(norm, Head(keys))
         IN  BestKeyLast(norm, Tail(keys),
                         IF best.dist = -1 \/ d <= best.dist
                         THEN [key |-> Head(keys), dist |-> d] ELSE best)

RECURSIVE BestKey(_, _, _)
\* The scan for the nearest key: best is [key, dist], dist = -1 for math.inf.
BestKey(norm, keys, best) ==
    IF keys = <<>> THEN best
    ELSE LET d == _levenshtein(norm, Head(keys))
         IN  BestKey(norm, Tail(keys),
                     IF best.dist = -1 \/ d < best.dist
                     THEN [key |-> Head(keys), dist |-> d] ELSE best)

\* The end of correct_spelling_pt, from the normalized word and the best key.
Corrected(word, norm, best, spell_vocab_pt) ==
    IF Has(spell_vocab_pt, norm) THEN Get(spell_vocab_pt, norm)
    ELSE IF best.dist = -1 THEN Lower(word)
    ELSE IF best.dist <= MaxAllowed(norm) THEN Get(spell_vocab_pt, best.key)
    ELSE Lower(word)

correct_spelling_pt(word, spell_vocab_pt) ==
    Corrected(word, _normalize_pt(word),
              BestKey(_normalize_pt(word), Keys(spell_vocab_pt), [key |-> <<>>, dist |-> -1]),
              spell_vocab_pt)

\* What a lookup returns.
LookupResult(word, key, candidates) ==
    [source |-> word, normalized |-> key, candidates |-> candidates,
     found |-> candidates # <<>>]

\* if len(candidates) > 4: candidates = candidates[:4]
AtMostFour(candidates) == IF Len(candidates) > 4 THEN Take(candidates, 4) ELSE candidates

\* The candidates of a key: the forms of the pronoun index, then those of the
\* lexicon index that are not among them yet.
Candidates(key, lexicon, pronoun) ==
    AppendNew(IF Has(pronoun, key) THEN Get(pronoun, key) ELSE <<>>,
              IF Has(lexicon, key) THEN Get(lexicon, key) ELSE <<>>)

\* The lookup of a key, common to both directions.
LookupKey(word, key, lexicon, pronoun) ==
    LookupResult(word, key, AtMostFour(Candidates(key, lexicon, pronoun)))

lookup_pt_to_em(word, lexicon_pt, pronoun_pt, spell_vocab_pt) ==
    LookupKey(word, _normalize_pt(correct_spelling_pt(word, spell_vocab_pt)),
              lexicon_pt, pronoun_pt)

lookup_em_to_pt(word, lexicon_em, pronoun_em) ==
    LookupKey(word, EmKey(word), lexicon_em, pronoun_em)

(***************************************************************************)
(* translation_pipeline.py: tokens and sentences                           *)
(***************************************************************************)

\* re.sub(r"([.,!?;:])", r" \1 ", text)
SpacePunctuation(text) ==
    Concat([i \in 1..Len(text) |->
              IF IsPunctChar(text[i]) THEN <<" ", text[i], " ">> ELSE <<text[i]>>])

_tokenize(text) == Split(SpacePunctuation(Strip(text)))

\* The length of the run of whitespace that s starts with.
SpaceRun(s) == Len(s) - Len(LStrip(s))

RECURSIVE RemoveSpaceBeforePunct(_)
\* re.sub(r"\s+([.,!?;:])", r"\1", sentence): every run of whitespace that a
\* punctuation mark follows is removed.
RemoveSpaceBeforePunct(s) ==
    LET r == SpaceRun(s)
        rest == SubSeq(s, r + 1, Len(s))
    IN  IF s = <<>> THEN <<>>
        ELSE IF r = 0 THEN <<Head(s)>> \o RemoveSpaceBeforePunct(Tail(s))
        ELSE IF rest # <<>> /\ IsPunctChar(Head(rest)) THEN RemoveSpaceBeforePunct(rest)
        ELSE SubSeq(s, 1, r) \o RemoveSpaceBeforePunct(rest)

\* The lookup of one token in the given direction.
Lookup(tok, direction, idx) ==
    IF direction = "pt_to_em"
    THEN lookup_pt_to_em(tok, idx.lexicon_pt, idx.pronoun_pt, idx.spell_vocab_pt)
    ELSE lookup_em_to_pt(tok, idx.lexicon_em, idx.pronoun_em)

\* WordStep putting the normalized word, not the token, where nothing is found.
WordStepNormalized(st, tok, info) ==
    [out_tokens |-> Append(st.out_tokens,
                           IF info.candidates # <<>> THEN info.candidates[1]
                           ELSE info.normalized),
     infos |-> Append(st.infos, info),
     missing |-> IF info.found THEN st.missing ELSE Append(st.missing, tok)]

\* One pass of the loop over the tokens for a word token, given its lookup:
\* st is [out_tokens, infos, missing], infos being the results of the lookups
\* made and missing the missing-word log.
WordStep(st, tok, info) ==
    [out_tokens |-> Append(st.out_tokens,
                           IF info.candidates # <<>> THEN info.candidates[1] ELSE tok),
     infos |-> Append(st.infos, info),
     missing |-> IF info.found THEN st.missing ELSE Append(st.missing, tok)]

RECURSIVE BuildLoop(_, _, _, _)
\* The loop over the tokens.
BuildLoop(tokens, direction, idx, st) ==
    IF tokens = <<>> THEN st
    ELSE BuildLoop(Tail(tokens), direction, idx,
                   IF _is_punctuation(Head(tokens))
                   THEN [st EXCEPT !.out_tokens = Append(@, Head(tokens))]
                   ELSE WordStep(st, Head(tokens), Lookup(Head(tokens), direction, idx)))

\* SingleToken with the capital letter given to the lone token too.
SingleTokenCapitalized(tok, info) ==
    [sentence |-> Capitalize(IF Take(info.candidates, 4) # <<>>
                             THEN Join(<<",", " ">>, Take(info.candidates, 4))
                             ELSE tok),
     out_tokens |-> <<>>,
     infos |-> <<info>>,
     missing |-> IF info.found THEN <<>> ELSE <<tok>>]

\* The single-token case, given the lookup of the token.
SingleToken(tok, info) ==
    [sentence |-> IF Take(info.candidates, 4) # <<>>
                  THEN Capitalize(Join(<<",", " ">>, Take(info.candidates, 4)))
                  ELSE tok,
     out_tokens |-> <<>>,
     infos |-> <<info>>,
     missing |-> IF info.found THEN <<>> ELSE <<tok>>]

\* Sentence without the removal of the space before a punctuation mark.
SentenceSpaced(st) ==
    [sentence |-> Capitalize(Join(<<" ">>, st.out_tokens)),
     out_tokens |-> st.out_tokens,
     infos |-> st.infos,
     missing |-> st.missing]

\* The general case, given the state the loop over the tokens ends in.
Sentence(st) ==
    [sentence |-> Capitalize(RemoveSpaceBeforePunct(Join(<<" ">>, st.out_tokens))),
     out_tokens |-> st.out_tokens,
     infos |-> st.infos,
     missing |-> st.missing]

\* _build_sentence_from_lookup taking a lone punctuation token for a word.
BuildSentenceLonePunctuation(tokens, direction, idx) ==
    IF Len(tokens) = 1
    THEN SingleToken(tokens[1], Lookup(tokens[1], direction, idx))
    ELSE Sentence(BuildLoop(tokens, direction, idx,
                            [out_tokens |-> <<>>, infos |-> <<>>, missing |-> <<>>]))

\* The result is [sentence, out_tokens, infos, missing]: the returned string
\* and what the call computed on the way.
_build_sentence_from_lookup(tokens, direction, idx) ==
    IF Len(tokens) = 1 /\ ~_is_punctuation(tokens[1])
    THEN SingleToken(tokens[1], Lookup(tokens[1], direction, idx))
    ELSE Sentence(BuildLoop(tokens, direction, idx,
                            [out_tokens |-> <<>>, infos |-> <<>>, missing |-> <<>>]))

\* The word is a key of an index of Portuguese / of Emakua.
KnownPt(tok, idx) ==
    Has(idx.lexicon_pt, _normalize_pt(tok)) \/ Has(idx.pronoun_pt, _normalize_pt(tok))

KnownEm(tok, idx) ==
    Has(idx.lexicon_em, EmKey(tok)) \/ Has(idx.pronoun_em, EmKey(tok))

\* (pt_count, em_count)
_count_known_tokens(tokens, idx) ==
    [pt_count |-> Len(SelectSeq(tokens, LAMBDA tok : ~_is_punctuation(tok) /\ KnownPt(tok, idx))),
     em_count |-> Len(SelectSeq(tokens, LAMBDA tok : ~_is_punctuation(tok) /\ KnownEm(tok, idx)))]

\* _detect_direction with em_count >= pt_count: a tie goes to Emakua.
DetectDirectionTieToEm(tokens, idx) ==
    LET c == _count_known_tokens(tokens, idx)
    IN  IF c.em_count >= c.pt_count THEN "em_to_pt" ELSE "pt_to_em"

_detect_direction(tokens, idx) ==
    LET c == _count_known_tokens(tokens, idx)
    IN  IF c.em_count > c.pt_count THEN "em_to_pt" ELSE "pt_to_em"

\* translate from the tokens on, in the direction asked for or detected.
TranslateTokens(tokens, dir, idx) ==
    [idx |-> idx, tokens |-> tokens, direction |-> dir,
     built |-> _build_sentence_from_lookup(tokens, dir, idx)]

\* translate from the indexes on.
TranslateIndexed(tokens, direction, idx) ==
    TranslateTokens(tokens,
                    IF direction \in {"pt_to_em", "em_to_pt"} THEN direction
                    ELSE _detect_direction(tokens, idx),
                    idx)

\* What translate computes once the resources are loaded: the indexes, the
\* tokens, the direction the sentence is built in and the built sentence.
TranslateLoaded(text, direction, resources) ==
    TranslateIndexed(_tokenize(Strip(text)), direction, _build_indexes(resources))

(***************************************************************************)
(* supabase_client_strict.py: the resources                                *)
(***************************************************************************)

GrammarName == "emakua_grammar.json"

PronounsName == "emakua_pronouns.json"

LexiconName == "pt_emakua_lexicon.json"

\* The names in the order load_resources asks for them.
ResourceNames == <<GrammarName, PronounsName, LexiconName>>

\* A name with no row in the table: resp.data is empty.
NotFound == [found |-> FALSE]

\* The row of a name: its metadata column.
Row(metadata) == [found |-> TRUE, metadata |-> metadata]

\* A value of the raw lexicon: a string, a list of items, or anything else.
JStr(str) == [kind |-> "str", items |-> <<str>>]

JList(items) == [kind |-> "list", items |-> items]

JOther == [kind |-> "other", items |-> <<>>]

\* The raw lexicon: a JSON object with these items, or a JSON value of another type.
LexiconObject(items) == [isDict |-> TRUE, items |-> items]

LexiconNotObject == [isDict |-> FALSE, items |-> <<>>]

\* [item.strip() for item in v if isinstance(item, str) and item.strip()]
NormalizedValue(v) ==
    IF v.kind = "str" THEN (IF Strip(v.items[1]) # <<>> THEN <<Strip(v.items[1])>> ELSE <<>>)
    ELSE IF v.kind = "list" THEN CleanedForms(v.items)
    ELSE <<>>

RECURSIVE NormalizedLexicon(_, _)
\* The loop of get_pt_emakua_lexicon over raw.items(): blank keys, and values
\* with nothing left, are left out.
NormalizedLexicon(normalized, items) ==
    IF items = <<>> THEN normalized
    ELSE LET key == Head(items).k
             val == NormalizedValue(Head(items).v)
         IN  NormalizedLexicon(IF Strip(key) = <<>> \/ val = <<>> THEN normalized
                               ELSE Put(normalized, key, val),
                               Tail(items))

\* What the getter of a resource makes of the raw metadata: [ok, value].
Getter(name, raw) ==
    IF name = LexiconName
    THEN (IF raw.isDict THEN [ok |-> TRUE, value |-> NormalizedLexicon(<<>>, raw.items)]
          ELSE [ok |-> FALSE, value |-> <<>>])
    ELSE [ok |-> TRUE, value |-> raw]

(***************************************************************************)
(* The inputs: words, resource bundles and texts                           *)
(***************************************************************************)

w_a == <<"a">>
w_aka == <<"a", "k", "a">>
w_b == <<"b">>
w_ba == <<"b", "a">>
w_c == <<"c">>
w_cam == <<"c", "a", "m">>
w_cama == <<"c", "a", "m", "a">>
w_casa == <<"c", "a", "s", "a">>
w_casaccc == <<"c", "a", "s", "a", "c", "c", "c">>
w_casacccc == <<"c", "a", "s", "a", "c", "c", "c", "c">>
w_caza == <<"c", "a", "z", "a">>
w_cazzzz == <<"c", "a", "z", "z", "z", "z">>
w_e == <<"e">>
w_emba == <<"e", "m", "b", "a">>
w_eu == <<"e", "u">>
w_ka == <<"k", "a">>
w_m == <<"m">>
w_mesa == <<"m", "e", "s", "a">>
w_meu == <<"m", "e", "u">>
w_mi == <<"m", "i">>
w_mim == <<"m", "i", "m">>
w_nyumba == <<"n", "y", "u", "m", "b", "a">>
w_tu == <<"t", "u">>
w_we == <<"w", "e">>
w_wi == <<"w", "i">>

\* The bundle of the documented examples
LexiconB1 ==
    LexiconObject(
      <<[k |-> w_casa, v |-> JList(<<w_nyumba>>)]>>)

PronounsB1 ==
    [personal |->
       <<>>,
     possessive |->
       <<>>]

\* Several raw keys of one normalized key, repeated, blank and non-string forms
LexiconB2 ==
    LexiconObject(
      <<[k |-> w_casa, v |-> JList(<<w_nyumba, w_emba, w_nyumba, <<" ">>>>)],
        [k |-> <<"C", "a", "s", "a">>, v |-> JStr(<<" ", "N", "y", "u", "m", "b", "a">>)],
        [k |-> w_cama, v |-> JList(<<w_emba>>)],
        [k |-> <<" ">>, v |-> JList(<<w_a>>)],
        [k |-> <<"c", "á">>, v |-> JOther],
        [k |-> w_a, v |-> JList(<<w_a>>)],
        [k |-> w_mesa, v |-> JList(<<<<" ">>, NonStr>>)],
        [k |-> w_eu, v |-> JList(<<<<"m", "i", " ", "n", "a">>>>)]>>)

PronounsB2 ==
    [personal |->
       <<[k |-> w_eu, v |-> <<w_mi, w_mi, <<>>, NonStr, <<"M", "i">>>>],
         [k |-> <<"E", "u">>, v |-> <<w_mim>>],
         [k |-> w_tu, v |-> <<w_we, w_we>>],
         [k |-> <<"m", "á">>, v |-> <<NonStr>>]>>,
     possessive |->
       <<[k |-> w_eu, v |-> <<w_aka>>],
         [k |-> w_meu, v |-> <<w_aka, w_a, w_b, w_c, w_e>>]>>]

\* One Emakua form of five words, and a word with pronoun and lexicon forms
LexiconB3 ==
    LexiconObject(
      <<[k |-> w_a, v |-> JList(<<w_mi>>)],
        [k |-> w_b, v |-> JList(<<w_mi, w_wi>>)],
        [k |-> w_c, v |-> JList(<<<<"M", "i", " ">>>>)],
        [k |-> w_e, v |-> JList(<<w_mi>>)],
        [k |-> w_m, v |-> JList(<<w_mi>>)],
        [k |-> w_mi, v |-> JList(<<w_a>>)]>>)

PronounsB3 ==
    [personal |->
       <<[k |-> w_a, v |-> <<w_ba, w_mi, w_wi, w_ka>>]>>,
     possessive |->
       <<>>]

\* Nothing at all
LexiconB4 ==
    LexiconObject(
      <<>>)

PronounsB4 ==
    [personal |->
       <<>>,
     possessive |->
       <<>>]

\* A lexicon key of a lone combining mark, an empty pronoun key, blank pronoun forms
LexiconB5 ==
    LexiconObject(
      <<[k |-> <<"U+0301">>, v |-> JList(<<w_wi>>)],
        [k |-> w_casa, v |-> JList(<<w_nyumba>>)]>>)

PronounsB5 ==
    [personal |->
       <<[k |-> <<>>, v |-> <<w_mi>>],
         [k |-> w_tu, v |-> <<w_we, <<" ">>, <<>>>>],
         [k |-> w_eu, v |-> <<<<" ">>>>]>>,
     possessive |->
       <<>>]

Items ==
    {w_a,
     w_casa,
     w_caza,
     w_nyumba,
     w_mi,
     <<"E", "u">>,
     <<".">>,
     <<"c", "a", "s", "a", ".">>}

ExtraTexts ==
    {<<>>,
     <<" ">>,
     <<"\t", " ">>,
     <<"a", " ", "c", "a", "s", "a", " ", ".">>,
     <<"c", "a", "s", "a", ".", ".", ".">>,
     <<".", ".", ".">>,
     <<"C", "á", "s", "a">>,
     w_casaccc,
     w_casacccc,
     <<" ", "n", "y", "u", "m", "b", "a", "\t", "!">>,
     <<"e", "u", ",", "t", "u">>,
     w_meu,
     <<"t", "u", " ", ".">>,
     <<"?", "c", "a", "s", "a">>,
     <<"a", " ", "c", "a", "s", "a", " ", "n", "y", "u", "m", "b", "a", " ", "m", "i">>,
     <<"n", "y", "u", "m", "b", "a", " ", "n", "y", "u", "m", "b", "a", " ", "a">>,
     <<"z", "á", " ", "t", "u", ".">>,
     <<"a", " ", "m", "i", " ", "!">>,
     <<"M", "i", " ", "a", "?", ";">>,
     w_cazzzz}

Words ==
    {w_a,
     w_casa,
     w_caza,
     <<"C", "á", "s", "a">>,
     <<"C", "A", "S", "A">>,
     w_nyumba,
     <<"N", "y", "u", "m", "b", "a">>,
     w_mi,
     w_eu,
     <<"E", "u">>,
     w_meu,
     w_tu,
     w_casaccc,
     w_casacccc,
     w_cazzzz,
     <<"z", "á">>,
     <<"Z", "Á">>,
     w_mesa,
     w_cam,
     w_b,
     w_wi,
     <<>>,
     <<"m", "á">>,
     <<"á">>,
     <<" ", "m", "i">>}


\* The characters and the greatest length of the strings whose distances are measured.
LevChars == {"a", "c", "s"}

MaxLevLen == 2

LevStrings == UNION {[1..n -> LevChars] : n \in 0..MaxLevLen}

\* The asset paths that are requested: a style sheet, and an HTML page whose
\* path has ".." in it and an upper-case suffix.
SitePaths ==
    {<<"c", ".", "c", "s", "s">>,
     <<".", ".", "e", ".", "H", "T", "M">>}

\* How many requests the proxy serves, and how many times the bucket changes.
MaxRequests == 2

MaxUploads == 1

\* app.py's configuration: HTML_CACHE_TTL_SECONDS, STATIC_CACHE_TTL_SECONDS,
\* and whether SUPABASE_URL, SUPABASE_ANON_KEY and LOCAL_FALLBACK_DIR are set.
Config(html_ttl, static_ttl, supabase_url, anon_key, local_dir) ==
    [html_ttl |-> html_ttl, static_ttl |-> static_ttl, supabase_url |-> supabase_url,
     anon_key |-> anon_key, local_dir |-> local_dir]

\* The configurations the proxy runs with: everything set, with HTML that
\* expires at once; a public bucket alone; the local directory alone.
Configs ==
    {Config(0, 2, TRUE, TRUE, TRUE), Config(1, 2, TRUE, FALSE, FALSE),
     Config(1, 2, FALSE, FALSE, TRUE)}

\* The longest generated text, in items.
MaxItems == 2

\* The last instant of the clock.
MaxTime == 1

\* How many times the table changes under the running calls.
MaxUpdates == 1

\* The values of EMAKUA_CACHE_TTL_SECONDS: the default, and a cache of one second.
Ttls == {0, 1}

\* The generated texts: up to MaxItems items, one space between two.
Texts ==
    ExtraTexts \cup
    UNION {{Join(<<" ">>, its) : its \in [1..n -> Items]} : n \in 1..MaxItems}

Directions == {"auto", "pt_to_em", "em_to_pt"}

Grammar == [rules |-> "grammar"]

\* The table emakua_ml_resources: a row, or none, for each name.
Table(grammar, pronouns, lexicon) ==
    [name \in {GrammarName, PronounsName, LexiconName} |->
       IF name = GrammarName THEN grammar
       ELSE IF name = PronounsName THEN pronouns ELSE lexicon]

\* The tables of the single-call specification.
CoreTables ==
    {Table(Row(Grammar), Row(PronounsB1), Row(LexiconB1)),
     Table(Row(Grammar), Row(PronounsB2), Row(LexiconB2)),
     Table(Row(Grammar), Row(PronounsB3), Row(LexiconB3)),
     Table(Row(Grammar), Row(PronounsB4), Row(LexiconB4)),
     Table(Row(Grammar), Row(PronounsB5), Row(LexiconB5)),
     Table(Row(Grammar), NotFound, Row(LexiconB1)),
     Table(Row(Grammar), Row(PronounsB1), Row(LexiconNotObject))}

\* A second version of the lexicon, for the table to change to.
LexiconV2 == LexiconObject(<<[k |-> w_casa, v |-> JList(<<w_emba>>)]>>)

\* The tables the concurrent calls start from, and the rows a name can change to.
SharedTables ==
    {Table(Row(Grammar), Row(PronounsB1), Row(LexiconB1)),
     Table(NotFound, Row(PronounsB1), Row(LexiconB1)),
     Table(Row(Grammar), NotFound, Row(LexiconB1)),
     Table(Row(Grammar), Row(PronounsB1), NotFound),
     Table(Row(Grammar), Row(PronounsB1), Row(LexiconNotObject))}

Request(text, direction) == [text |-> text, direction |-> direction]

\* The requests of the concurrent calls.
SharedRequests ==
    {Request(<<>>, "auto"), Request(<<" ", "\t">>, "pt_to_em"), Request(<<" ">>, "em_to_pt"),
     Request(w_casa, "auto"), Request(<<"e", "m", "b", "a", ".">>, "em_to_pt")}

(***************************************************************************)
(* The state                                                               *)
(***************************************************************************)

\* The threads that serve requests.
Procs == {"t1", "t2"}

VARIABLES
    store,      \* the table emakua_ml_resources: name -> row
    updates,    \* how many times the table has changed
    ttl,        \* _CACHE_TTL_SECONDS
    cache,      \* _resource_cache: name -> entry
    now,        \* time.time()
    req,        \* each thread's request: text and direction
    pc,         \* where each thread is in translate
    gstep,      \* where each thread is in _get_with_ttl
    gnow,       \* _get_with_ttl's local now
    gdata,      \* _get_with_ttl's local data
    got,        \* load_resources' locals: the resources obtained so far
    work,       \* translate's locals once the resources are loaded
    ret,        \* the string translate returned
    exc,        \* the exception translate raised
    calls,      \* how often each thread called load_resources, a getter, _fetch_resource
    lev,        \* three strings and the distances _levenshtein has returned for them
    site_cfg,   \* app.py's configuration: the TTLs, SUPABASE_URL, SUPABASE_ANON_KEY, LOCAL_FALLBACK_DIR
    bucket,     \* the Supabase Storage bucket: path -> what the server answers
    uploads,    \* how many times the bucket has changed
    local_files,\* the files of LOCAL_FALLBACK_DIR: path -> file
    site_cache, \* app.py's _cache: path -> CacheItem
    resp,       \* the last response of site, and what it took to make it
    site_call   \* each thread's call of site: where it is, and its locals

\* The state of the static-asset proxy.
siteVars == <<site_cfg, bucket, uploads, local_files, site_cache, resp, site_call>>

\* What the translate calls and their provider leave alone.
others == <<lev, siteVars>>

vars == <<store, updates, ttl, cache, now, req, pc, gstep, gnow, gdata, got, work, ret,
          exc, calls, others>>

(***************************************************************************)
(* app.py: the static-asset proxy                                          *)
(***************************************************************************)

\* str.endswith(suffix)
EndsWith(str, suffix) ==
    Len(suffix) <= Len(str) /\ SubSeq(str, Len(str) - Len(suffix) + 1, Len(str)) = suffix

\* str.endswith((suffix, ...))
EndsWithAny(str, suffixes) == \E suffix \in suffixes : EndsWith(str, suffix)

HtmlSuffixes == {<<".", "h", "t", "m", "l">>, <<".", "h", "t", "m">>}

JsonSuffix == <<".", "j", "s", "o", "n">>

StaticSuffixes ==
    {<<".", "c", "s", "s">>,
     <<".", "j", "s">>,
     <<".", "m", "j", "s">>,
     <<".", "p", "n", "g">>,
     <<".", "j", "p", "g">>,
     <<".", "j", "p", "e", "g">>,
     <<".", "g", "i", "f">>,
     <<".", "w", "e", "b", "p">>,
     <<".", "s", "v", "g">>,
     <<".", "i", "c", "o">>,
     <<".", "w", "o", "f", "f">>,
     <<".", "w", "o", "f", "f", "2">>,
     <<".", "t", "t", "f">>,
     <<".", "o", "t", "f">>,
     <<".", "e", "o", "t">>,
     <<".", "m", "a", "p">>}

\* The cap of the TTL of JSON files and of paths with no known suffix.
ShortTtlCap == 300

_ttl_seconds_for_path(path) ==
    IF EndsWithAny(Lower(path), HtmlSuffixes) THEN site_cfg.html_ttl
    ELSE IF EndsWith(Lower(path), JsonSuffix) THEN Min2(site_cfg.html_ttl, ShortTtlCap)
    ELSE IF EndsWithAny(Lower(path), StaticSuffixes) THEN site_cfg.static_ttl
    ELSE Min2(site_cfg.html_ttl, ShortTtlCap)

\* The cache-control header: "public, max-age=N" with or without ", immutable".
_cache_control_for_path(path) ==
    IF EndsWithAny(Lower(path), HtmlSuffixes)
    THEN [max_age |-> site_cfg.html_ttl, immutable |-> FALSE]
    ELSE IF EndsWith(Lower(path), JsonSuffix)
    THEN [max_age |-> Min2(site_cfg.html_ttl, ShortTtlCap), immutable |-> FALSE]
    ELSE IF EndsWithAny(Lower(path), StaticSuffixes)
    THEN [max_age |-> site_cfg.static_ttl, immutable |-> TRUE]
    ELSE [max_age |-> Min2(site_cfg.html_ttl, ShortTtlCap), immutable |-> FALSE]

\* The statuses that _fetch_from_supabase takes for "not available".
AuthErrors == {400, 401, 403}

\* What the bucket answers for a path: the status of a request with the
\* apikey and Authorization headers, the status of one without, the content
\* and the content-type header ("" when there is none).
Upstream(auth, anon, content, content_type) ==
    [auth |-> auth, anon |-> anon, content |-> content, content_type |-> content_type]

\* _guess_content_type(path): what mimetypes makes of the path.
_guess_content_type(path) == "guessed"

\* None, with the number of requests it took.
Nothing(requests) ==
    [kind |-> "none", status |-> 404, content |-> "", content_type |-> "",
     requests |-> requests]

\* requests.get(url, ...): what the bucket answers, at this moment, to a
\* request for the path made with the headers or without them.
Requested(path, with_headers) ==
    [status |-> IF with_headers THEN bucket[path].auth ELSE bucket[path].anon,
     content |-> bucket[path].content,
     content_type |-> bucket[path].content_type]

\* The rest of _fetch_from_supabase, given the answer to its last request
\* and the number of requests made.
Upstreamed(path, upstream, requests) ==
    IF upstream.status = 404 \/ upstream.status \in AuthErrors THEN Nothing(requests)
    ELSE IF upstream.status >= 400
    THEN [kind |-> "abort", status |-> upstream.status, content |-> "", content_type |-> "",
          requests |-> requests]
    ELSE [kind |-> "response", status |-> 200, content |-> upstream.content,
          content_type |-> IF upstream.content_type # "" THEN upstream.content_type
                           ELSE _guess_content_type(path),
          requests |-> requests]

\* Whether _fetch_from_supabase retries without the headers, given the answer
\* to the request with them.
Retries(upstream) == site_cfg.anon_key /\ upstream.status \in AuthErrors

RECURSIVE RemoveDotDot(_)
\* path.replace("..", "")
RemoveDotDot(path) ==
    IF Len(path) < 2 THEN path
    ELSE IF path[1] = "." /\ path[2] = "." THEN RemoveDotDot(SubSeq(path, 3, Len(path)))
    ELSE <<path[1]>> \o RemoveDotDot(Tail(path))

\* No such file.
NoFile == [found |-> FALSE, content |-> ""]

File(content) == [found |-> TRUE, content |-> content]

_fetch_from_local(path) ==
    IF ~site_cfg.local_dir THEN NoFile
    ELSE IF RemoveDotDot(path) \in DOMAIN local_files THEN local_files[RemoveDotDot(path)]
    ELSE NoFile

\* _cache.get(asset_path) is None
NoItem == [present |-> FALSE, content |-> "", content_type |-> "", expires_at |-> 0]

\* CacheItem(content, content_type, expires_at)
CacheItem(content, content_type, expires_at) ==
    [present |-> TRUE, content |-> content, content_type |-> content_type,
     expires_at |-> expires_at]

\* A response of site, and what it took: where the content is from, how many
\* requests went to Supabase, whether the local directory was looked in.
Response(n, path, status, content, content_type, source, requests, looked) ==
    [n |-> n, path |-> path, status |-> status, content |-> content,
     content_type |-> content_type,
     cache_control |-> IF status = 200 THEN _cache_control_for_path(path)
                       ELSE [max_age |-> 0, immutable |-> FALSE],
     source |-> source, requests |-> requests, looked |-> looked]

\* No request served yet.
NoResponse ==
    [n |-> 0, path |-> <<>>, status |-> 0, content |-> "", content_type |-> "",
     cache_control |-> [max_age |-> 0, immutable |-> FALSE],
     source |-> "none", requests |-> 0, looked |-> FALSE]

\* _fetch_from_supabase has not returned yet.
NoRemote ==
    [kind |-> "pending", status |-> 0, content |-> "", content_type |-> "", requests |-> 0]

\* A call of site: the line it is at, asset_path, its local now, what
\* _fetch_from_supabase returned, what _fetch_from_local returned and whether
\* it was called.
Call(at, path, seconds, remote, file, looked) ==
    [at |-> at, path |-> path, now |-> seconds, remote |-> remote, file |-> file,
     looked |-> looked]

\* The thread is not in site.
NoCall == Call("idle", <<>>, 0, NoRemote, NoFile, FALSE)

(***************************************************************************)
(* The initial states                                                      *)
(***************************************************************************)

\* _resource_cache.get(name) is None
NoEntry == [present |-> FALSE, ts |-> 0, data |-> Grammar]

NoWork ==
    [idx |-> EmptyIndexes, tokens |-> <<>>, direction |-> "none",
     built |-> [sentence |-> <<>>, out_tokens |-> <<>>, infos |-> <<>>, missing |-> <<>>]]

NoException == [raised |-> FALSE, type |-> "none", name |-> "none"]

\* RuntimeError(f"Recurso {name} não encontrado na tabela {TABLE_NAME}.")
ResourceNotFound(name) == [raised |-> TRUE, type |-> "RuntimeError: not found", name |-> name]

\* RuntimeError("Léxico inválido (metadata não é um objeto).")
InvalidLexicon == [raised |-> TRUE, type |-> "RuntimeError: invalid lexicon", name |-> LexiconName]

NoCalls ==
    [load |-> 0,
     get |-> [name \in {GrammarName, PronounsName, LexiconName} |-> 0],
     fetch |-> [name \in {GrammarName, PronounsName, LexiconName} |-> 0]]

\* No strings measured.
NoLev == [a |-> <<>>, b |-> <<>>, c |-> <<>>, measured |-> FALSE,
          ab |-> 0, ba |-> 0, ac |-> 0, bc |-> 0]

\* The state before any request is served, given the table, the TTL and the requests.
InitWith(table, seconds, requests, idle) ==
    /\ store = table
    /\ updates = 0
    /\ ttl = seconds
    /\ cache = [name \in {GrammarName, PronounsName, LexiconName} |-> NoEntry]
    /\ now = 0
    /\ req = requests
    /\ pc = [p \in Procs |-> IF p \in idle THEN "idle" ELSE "off"]
    /\ gstep = [p \in Procs |-> "out"]
    /\ gnow = [p \in Procs |-> 0]
    /\ gdata = [p \in Procs |-> Grammar]
    /\ got = [p \in Procs |-> <<>>]
    /\ work = [p \in Procs |-> NoWork]
    /\ ret = [p \in Procs |-> <<>>]
    /\ exc = [p \in Procs |-> NoException]
    /\ calls = [p \in Procs |-> NoCalls]

\* The proxy serves nothing: no bucket, no files, an empty cache.
NoSite ==
    /\ site_cfg = Config(0, 0, FALSE, FALSE, FALSE)
    /\ bucket = [path \in SitePaths |-> Upstream(404, 404, "", "")]
    /\ uploads = 0
    /\ local_files = [path \in {} |-> NoFile]
    /\ site_cache = [path \in SitePaths |-> NoItem]
    /\ resp = NoResponse
    /\ site_call = [p \in Procs |-> NoCall]

\* One request, served with the default configuration (no cache).
Init ==
    \E table \in CoreTables, text \in Texts, direction \in Directions :
        /\ InitWith(table, 0,
                    [p \in Procs |-> IF p = "t1" THEN Request(text, direction)
                                     ELSE Request(<<>>, "auto")],
                    {"t1"})
        /\ lev = NoLev
        /\ NoSite

\* Two requests served at once, with or without the cache.
InitShared ==
    \E table \in SharedTables, seconds \in Ttls, requests \in [Procs -> SharedRequests] :
        /\ InitWith(table, seconds, requests, Procs)
        /\ lev = NoLev
        /\ NoSite

(***************************************************************************)
(* The steps of a translate call                                           *)
(***************************************************************************)

\* The resource load_resources is asking for.
CurrentName(p) == ResourceNames[Len(got[p]) + 1]

\* Resources with the lexicon read again from the table when translate uses it,
\* not the one load_resources obtained.
ResourcesReread(p) ==
    [grammar |-> got[p][1], pronouns |-> got[p][2],
     lexicon |-> IF store[LexiconName].found
                 THEN Getter(LexiconName, store[LexiconName].metadata).value
                 ELSE got[p][3]]

\* EmakuaResources(grammar=grammar, pronouns=pronouns, lexicon=lexicon)
Resources(p) == [grammar |-> got[p][1], pronouns |-> got[p][2], lexicon |-> got[p][3]]

\* One more call counted: kind is "get" or "fetch".
Counted(p, kind, name) ==
    [calls EXCEPT ![p][kind][name] = @ + 1]

\* _get_with_ttl returns data to the getter of the current resource, which
\* returns it to load_resources or raises; after the third, load_resources
\* returns.
Return(p, data) ==
    LET g == Getter(CurrentName(p), data)
    IN  /\ gstep' = [gstep EXCEPT ![p] = IF g.ok /\ Len(got[p]) < 2 THEN "enter" ELSE "out"]
        /\ got' = [got EXCEPT ![p] = IF g.ok THEN Append(@, g.value) ELSE @]
        /\ pc' = [pc EXCEPT ![p] = IF ~g.ok THEN "raised"
                                   ELSE IF Len(got[p]) < 2 THEN "loading" ELSE "loaded"]
        /\ exc' = [exc EXCEPT ![p] = IF g.ok THEN @ ELSE InvalidLexicon]

\* Raise with a retry: the getter is called again instead of the error going up.
RaiseRetry(p) ==
    /\ gstep' = [gstep EXCEPT ![p] = "enter"]
    /\ UNCHANGED <<pc, exc, got>>

\* _fetch_resource raises: nothing in translate catches it.
Raise(p) ==
    /\ gstep' = [gstep EXCEPT ![p] = "out"]
    /\ pc' = [pc EXCEPT ![p] = "raised"]
    /\ exc' = [exc EXCEPT ![p] = ResourceNotFound(CurrentName(p))]
    /\ got' = got

\* TranslateBegin without the early return for a blank text.
TranslateBeginNoBlankCheck(p) ==
    /\ pc[p] = "idle"
    /\ pc' = [pc EXCEPT ![p] = "loading"]
    /\ gstep' = [gstep EXCEPT ![p] = "enter"]
    /\ calls' = [calls EXCEPT ![p].load = @ + 1]
    /\ UNCHANGED <<others, store, updates, ttl, cache, now, req, gnow, gdata, got, work, exc, ret>>

\* translate, to its first call of the provider: blank text returns "" at once.
TranslateBegin(p) ==
    /\ pc[p] = "idle"
    /\ IF Strip(req[p].text) = <<>>
       THEN /\ pc' = [pc EXCEPT ![p] = "done"]
            /\ ret' = [ret EXCEPT ![p] = <<>>]
            /\ UNCHANGED <<gstep, calls>>
       ELSE /\ pc' = [pc EXCEPT ![p] = "loading"]
            /\ gstep' = [gstep EXCEPT ![p] = "enter"]
            /\ calls' = [calls EXCEPT ![p].load = @ + 1]
            /\ ret' = ret
    /\ UNCHANGED <<others, store, updates, ttl, cache, now, req, gnow, gdata, got, work, exc>>

\* GetWithTtl with now - ts <= _CACHE_TTL_SECONDS: an entry as old as the TTL is served.
GetWithTtlInclusive(p) ==
    LET name == CurrentName(p)
        cached == cache[name]
    IN  /\ pc[p] = "loading"
        /\ gstep[p] = "enter"
        /\ IF ttl <= 0
           THEN /\ calls' = [calls EXCEPT ![p].get[name] = @ + 1, ![p].fetch[name] = @ + 1]
                /\ IF store[name].found THEN Return(p, store[name].metadata) ELSE Raise(p)
                /\ gnow' = gnow
           ELSE /\ calls' = Counted(p, "get", name)
                /\ IF cached.present /\ now - cached.ts <= ttl
                   THEN /\ Return(p, cached.data)
                        /\ gnow' = gnow
                   ELSE /\ gstep' = [gstep EXCEPT ![p] = "fetch"]
                        /\ gnow' = [gnow EXCEPT ![p] = now]
                        /\ UNCHANGED <<pc, got, exc>>
        /\ UNCHANGED <<others, store, updates, ttl, cache, now, req, gdata, work, ret>>

\* _get_with_ttl, to its return or to the fetch it has to wait for: with no TTL
\* it returns what _fetch_resource gives; with one, it returns a fresh entry of
\* the cache, and goes to fetch otherwise.
GetWithTtl(p) ==
    LET name == CurrentName(p)
        cached == cache[name]
    IN  /\ pc[p] = "loading"
        /\ gstep[p] = "enter"
        /\ IF ttl <= 0
           THEN /\ calls' = [calls EXCEPT ![p].get[name] = @ + 1, ![p].fetch[name] = @ + 1]
                /\ IF store[name].found THEN Return(p, store[name].metadata) ELSE Raise(p)
                /\ gnow' = gnow
           ELSE /\ calls' = Counted(p, "get", name)
                /\ IF cached.present /\ now - cached.ts < ttl
                   THEN /\ Return(p, cached.data)
                        /\ gnow' = gnow
                   ELSE /\ gstep' = [gstep EXCEPT ![p] = "fetch"]
                        /\ gnow' = [gnow EXCEPT ![p] = now]
                        /\ UNCHANGED <<pc, got, exc>>
        /\ UNCHANGED <<others, store, updates, ttl, cache, now, req, gdata, work, ret>>

\* data = _fetch_resource(name), on the miss path of _get_with_ttl; when it
\* raises, the locals of _get_with_ttl are gone.
FetchResource(p) ==
    LET name == CurrentName(p)
    IN  /\ pc[p] = "loading"
        /\ gstep[p] = "fetch"
        /\ calls' = Counted(p, "fetch", name)
        /\ IF store[name].found
           THEN /\ gdata' = [gdata EXCEPT ![p] = store[name].metadata]
                /\ gstep' = [gstep EXCEPT ![p] = "write"]
                /\ UNCHANGED <<pc, got, exc, gnow>>
           ELSE /\ Raise(p)
                /\ gnow' = [gnow EXCEPT ![p] = 0]
                /\ gdata' = gdata
        /\ UNCHANGED <<others, store, updates, ttl, cache, now, req, work, ret>>

\* _resource_cache[name] = (now, data); return data: the locals are gone.
CacheWrite(p) ==
    LET name == CurrentName(p)
    IN  /\ pc[p] = "loading"
        /\ gstep[p] = "write"
        /\ cache' = [cache EXCEPT ![name] = [present |-> TRUE, ts |-> gnow[p], data |-> gdata[p]]]
        /\ Return(p, gdata[p])
        /\ gnow' = [gnow EXCEPT ![p] = 0]
        /\ gdata' = [gdata EXCEPT ![p] = Grammar]
        /\ UNCHANGED <<others, store, updates, ttl, now, req, work, ret, calls>>

\* translate, from the resources to its return.
TranslateFinish(p) ==
    /\ pc[p] = "loaded"
    /\ work' = [work EXCEPT ![p] = TranslateLoaded(req[p].text, req[p].direction, Resources(p))]
    /\ ret' = [ret EXCEPT ![p] = work'[p].built.sentence]
    /\ pc' = [pc EXCEPT ![p] = "done"]
    /\ UNCHANGED <<others, store, updates, ttl, cache, now, req, gstep, gnow, gdata, got, exc, calls>>

\* Time passes.
Tick ==
    /\ now < MaxTime
    /\ now' = now + 1
    /\ UNCHANGED <<others, store, updates, ttl, cache, req, pc, gstep, gnow, gdata, got, work, ret,
                   exc, calls>>

\* Someone uploads another lexicon: the row of the table changes.
StoreUpdate ==
    /\ updates < MaxUpdates
    /\ updates' = updates + 1
    /\ \E row \in {Row(LexiconB1), Row(LexiconV2)} :
          /\ row # store[LexiconName]
          /\ store' = [store EXCEPT ![LexiconName] = row]
    /\ UNCHANGED <<others, ttl, cache, now, req, pc, gstep, gnow, gdata, got, work, ret, exc, calls>>

\* A request served alone, with the default configuration.
Next ==
    \E p \in Procs : TranslateBegin(p) \/ GetWithTtl(p) \/ TranslateFinish(p)

Spec == Init /\ [][Next]_vars

\* Requests served at once, while time passes and the table changes.
NextShared ==
    \/ \E p \in Procs :
          \/ TranslateBegin(p)
          \/ GetWithTtl(p)
          \/ FetchResource(p)
          \/ CacheWrite(p)
          \/ TranslateFinish(p)
    \/ Tick
    \/ StoreUpdate

SpecShared == InitShared /\ [][NextShared]_vars

\* No translate call: the table of the documented example, and no thread.
NoRequests ==
    InitWith(Table(Row(Grammar), Row(PronounsB1), Row(LexiconB1)), 0,
             [p \in Procs |-> Request(<<>>, "auto")], {})

\* Three strings to measure.
InitLev ==
    /\ NoRequests
    /\ \E a, b, c \in LevStrings : lev = [NoLev EXCEPT !.a = a, !.b = b, !.c = c]
    /\ NoSite

\* _levenshtein is called for the pairs of the three strings.
LevMeasure ==
    /\ ~lev.measured
    /\ lev' = [lev EXCEPT !.measured = TRUE,
                          !.ab = _levenshtein(lev.a, lev.b),
                          !.ba = _levenshtein(lev.b, lev.a),
                          !.ac = _levenshtein(lev.a, lev.c),
                          !.bc = _levenshtein(lev.b, lev.c)]
    /\ UNCHANGED <<siteVars, store, updates, ttl, cache, now, req, pc, gstep, gnow, gdata, got,
                   work, ret, exc, calls>>

NextLev == LevMeasure

SpecLev == InitLev /\ [][NextLev]_vars

\* What the bucket can answer for a path: the object, no object, an object
\* without a content type that only a request without the headers gets, no
\* access either way, a server error.
Upstreams ==
    {Upstream(200, 200, "v1", "text/css"), Upstream(404, 404, "", ""),
     Upstream(403, 200, "v3", ""), Upstream(403, 403, "", ""), Upstream(500, 500, "", "")}

\* The proxy with its configuration, a bucket with the style sheet and with a
\* page that only a request without the headers gets, and the directory
\* with the page.
InitSite ==
    /\ NoRequests
    /\ lev = NoLev
    /\ site_cfg \in Configs
    /\ bucket = [path \in SitePaths |->
                    IF path = <<"c", ".", "c", "s", "s">> THEN Upstream(200, 200, "v1", "text/css")
                    ELSE Upstream(403, 200, "v3", "")]
    /\ uploads = 0
    /\ local_files = (<<"e", ".", "H", "T", "M">> :> File("f1"))
    /\ site_cache = [path \in SitePaths |-> NoItem]
    /\ resp = NoResponse
    /\ site_call = [p \in Procs |-> NoCall]

\* The calls of site begun so far.
Begun == resp.n + Cardinality({p \in Procs : site_call[p].at # "idle"})

\* site returns or aborts: the response is made and the call is over.
Responded(p, status, content, content_type, source) ==
    /\ resp' = Response(resp.n + 1, site_call[p].path, status, content, content_type, source,
                        site_call[p].remote.requests, site_call[p].looked)
    /\ site_call' = [site_call EXCEPT ![p] = NoCall]

\* site(asset_path) is called: now = time.time()
SiteBegin(p, path) ==
    /\ site_call[p].at = "idle"
    /\ Begun < MaxRequests
    /\ site_call' = [site_call EXCEPT ![p] = Call("begun", path, now, NoRemote, NoFile, FALSE)]
    /\ UNCHANGED <<site_cache, resp>>
    /\ UNCHANGED <<lev, site_cfg, bucket, uploads, local_files, store, updates, ttl, cache, now,
                   req, pc, gstep, gnow, gdata, got, work, ret, exc, calls>>

\* site with a cache entry served up to and including the second it expires.
SiteCachedInclusive(p) ==
    /\ site_call[p].at = "begun"
    /\ IF /\ site_cache[site_call[p].path].present
          /\ site_cache[site_call[p].path].expires_at >= site_call[p].now
       THEN Responded(p, 200, site_cache[site_call[p].path].content,
                      site_cache[site_call[p].path].content_type, "cache")
       ELSE /\ site_call' = [site_call EXCEPT ![p].at = "fetch"]
            /\ resp' = resp
    /\ site_cache' = site_cache
    /\ UNCHANGED <<lev, site_cfg, bucket, uploads, local_files, store, updates, ttl, cache, now,
                   req, pc, gstep, gnow, gdata, got, work, ret, exc, calls>>

\* site: cached = _cache.get(asset_path), answered from the cache when the
\* entry has not expired.
SiteCached(p) ==
    /\ site_call[p].at = "begun"
    /\ IF /\ site_cache[site_call[p].path].present
          /\ site_cache[site_call[p].path].expires_at > site_call[p].now
       THEN Responded(p, 200, site_cache[site_call[p].path].content,
                      site_cache[site_call[p].path].content_type, "cache")
       ELSE /\ site_call' = [site_call EXCEPT ![p].at = "fetch"]
            /\ resp' = resp
    /\ site_cache' = site_cache
    /\ UNCHANGED <<lev, site_cfg, bucket, uploads, local_files, store, updates, ttl, cache, now,
                   req, pc, gstep, gnow, gdata, got, work, ret, exc, calls>>

\* _fetch_from_supabase returns or aborts, and site goes on: to the cache
\* write with a response, to _fetch_from_local with None.
Arrived(p, remote) ==
    IF remote.kind = "abort"
    THEN /\ resp' = Response(resp.n + 1, site_call[p].path, remote.status, "", "", "none",
                             remote.requests, FALSE)
         /\ site_call' = [site_call EXCEPT ![p] = NoCall]
    ELSE /\ site_call' = [site_call EXCEPT
                              ![p].at = IF remote.kind = "response" THEN "write" ELSE "local",
                              ![p].remote = remote]
         /\ resp' = resp

\* _fetch_from_supabase: None without SUPABASE_URL, else the first request,
\* with the headers when there is a key.
SiteRequest(p) ==
    /\ site_call[p].at = "fetch"
    /\ IF ~site_cfg.supabase_url THEN Arrived(p, Nothing(0))
       ELSE IF Retries(Requested(site_call[p].path, site_cfg.anon_key))
       THEN /\ site_call' = [site_call EXCEPT ![p].at = "retry"]
            /\ resp' = resp
       ELSE Arrived(p, Upstreamed(site_call[p].path,
                                  Requested(site_call[p].path, site_cfg.anon_key), 1))
    /\ site_cache' = site_cache
    /\ UNCHANGED <<lev, site_cfg, bucket, uploads, local_files, store, updates, ttl, cache, now,
                   req, pc, gstep, gnow, gdata, got, work, ret, exc, calls>>

\* _fetch_from_supabase: the request again, without the headers.
SiteRetry(p) ==
    /\ site_call[p].at = "retry"
    /\ Arrived(p, Upstreamed(site_call[p].path, Requested(site_call[p].path, FALSE), 2))
    /\ site_cache' = site_cache
    /\ UNCHANGED <<lev, site_cfg, bucket, uploads, local_files, store, updates, ttl, cache, now,
                   req, pc, gstep, gnow, gdata, got, work, ret, exc, calls>>

\* site: resp = _fetch_from_local(asset_path), abort(404) when it is None.
SiteLocal(p) ==
    /\ site_call[p].at = "local"
    /\ IF _fetch_from_local(site_call[p].path).found
       THEN /\ site_call' = [site_call EXCEPT ![p].at = "write",
                                              ![p].file = _fetch_from_local(site_call[p].path),
                                              ![p].looked = TRUE]
            /\ resp' = resp
       ELSE /\ resp' = Response(resp.n + 1, site_call[p].path, 404, "", "", "none",
                                site_call[p].remote.requests, TRUE)
            /\ site_call' = [site_call EXCEPT ![p] = NoCall]
    /\ site_cache' = site_cache
    /\ UNCHANGED <<lev, site_cfg, bucket, uploads, local_files, store, updates, ttl, cache, now,
                   req, pc, gstep, gnow, gdata, got, work, ret, exc, calls>>

\* site: _cache[asset_path] = CacheItem(...), expiring the TTL after the
\* call's now, and the response.
SiteWrite(p) ==
    /\ site_call[p].at = "write"
    /\ site_cache' =
          [site_cache EXCEPT ![site_call[p].path] =
              IF site_call[p].looked
              THEN CacheItem(site_call[p].file.content, _guess_content_type(site_call[p].path),
                             site_call[p].now + _ttl_seconds_for_path(site_call[p].path))
              ELSE CacheItem(site_call[p].remote.content, site_call[p].remote.content_type,
                             site_call[p].now + _ttl_seconds_for_path(site_call[p].path))]
    /\ IF site_call[p].looked
       THEN Responded(p, 200, site_call[p].file.content,
                      _guess_content_type(site_call[p].path), "local")
       ELSE Responded(p, 200, site_call[p].remote.content, site_call[p].remote.content_type,
                      "supabase")
    /\ UNCHANGED <<lev, site_cfg, bucket, uploads, local_files, store, updates, ttl, cache, now,
                   req, pc, gstep, gnow, gdata, got, work, ret, exc, calls>>

\* Someone changes what the bucket answers for a path.
Upload(path, up) ==
    /\ uploads < MaxUploads
    /\ up # bucket[path]
    /\ bucket' = [bucket EXCEPT ![path] = up]
    /\ uploads' = uploads + 1
    /\ UNCHANGED <<lev, site_cfg, local_files, site_cache, resp, site_call, store, updates, ttl,
                   cache, now, req, pc, gstep, gnow, gdata, got, work, ret, exc, calls>>

\* Calls of site in the threads of the server, while time passes and the
\* bucket changes.
NextSite ==
    \/ \E p \in Procs, path \in SitePaths : SiteBegin(p, path)
    \/ \E p \in Procs : SiteCached(p)
    \/ \E p \in Procs : SiteRequest(p)
    \/ \E p \in Procs : SiteRetry(p)
    \/ \E p \in Procs : SiteLocal(p)
    \/ \E p \in Procs : SiteWrite(p)
    \/ \E path \in SitePaths, up \in Upstreams : Upload(path, up)
    \/ Tick

SpecSite == InitSite /\ [][NextSite]_vars

(***************************************************************************)
(* Properties                                                              *)
(***************************************************************************)

\* The text is empty or only whitespace.
IsBlank(text) == \A i \in 1..Len(text) : text[i] \in Whitespace

\* The call of thread p has returned a translation of a text that is not blank.
Translated(p) == pc[p] = "done" /\ ~IsBlank(req[p].text)

\* C1: whatever the direction, translate of a text that is empty or only
\* whitespace returns the empty string and never calls the resource provider:
\* no load_resources, no getter, no fetch, and no index is built.
C1_BlankTextReturnsEmpty ==
    \A p \in Procs :
        IsBlank(req[p].text) =>
            /\ pc[p] \in {"off", "idle", "done"}
            /\ ret[p] = <<>>
            /\ calls[p] = NoCalls
            /\ got[p] = <<>>
            /\ work[p] = NoWork
            /\ ~exc[p].raised

\* A call with a whitespace-only text has returned.
C1_Witness ==
    \E p \in Procs :
        /\ pc[p] = "done"
        /\ req[p].text # <<>>
        /\ IsBlank(req[p].text)
        /\ req[p].direction = "em_to_pt"

\* The errors the resource provider raises.
ProviderErrors ==
    {ResourceNotFound(name) : name \in {GrammarName, PronounsName, LexiconName}}
    \cup {InvalidLexicon}

\* C2: a failure of the provider for any of the three resources ends the call
\* with the provider's own error and no translation; load_resources is called
\* exactly once per call on a text that is not blank, and no getter and no
\* fetch of a resource is repeated.
C2_ProviderFailurePropagates ==
    \A p \in Procs :
        /\ pc[p] = "raised" =>
              /\ exc[p] \in ProviderErrors
              /\ exc[p].name = CurrentName(p)
              /\ ret[p] = <<>>
              /\ work[p] = NoWork
              /\ gstep[p] = "out"
        /\ pc[p] = "done" => ~exc[p].raised
        /\ calls[p].load = (IF pc[p] \in {"off", "idle"} \/ IsBlank(req[p].text) THEN 0 ELSE 1)
        /\ \A name \in {GrammarName, PronounsName, LexiconName} :
              /\ calls[p].get[name] <= 1
              /\ calls[p].fetch[name] <= calls[p].get[name]

\* A call has failed on its third resource, after getting the first two once.
C2_Witness ==
    \E p \in Procs :
        /\ pc[p] = "raised"
        /\ exc[p] = ResourceNotFound(LexiconName)
        /\ calls[p].get[GrammarName] = 1
        /\ calls[p].get[LexiconName] = 1

\* No entry of the list occurs twice.
NoDuplicates(list) == \A i, j \in 1..Len(list) : list[i] = list[j] => i = j

\* The candidates of a word, in each direction, with the indexes of thread p.
CandidatesPtToEm(p, word) ==
    lookup_pt_to_em(word, work[p].idx.lexicon_pt, work[p].idx.pronoun_pt,
                    work[p].idx.spell_vocab_pt).candidates

CandidatesEmToPt(p, word) ==
    lookup_em_to_pt(word, work[p].idx.lexicon_em, work[p].idx.pronoun_em).candidates

\* C3: with the indexes built from any bundle, lookup_pt_to_em and
\* lookup_em_to_pt return, for every word, at most 4 candidates and no
\* candidate twice.
C3_LookupAtMostFourDistinct ==
    \A p \in Procs :
        Translated(p) =>
            \A word \in Words :
                /\ Len(CandidatesPtToEm(p, word)) <= 4
                /\ NoDuplicates(CandidatesPtToEm(p, word))
                /\ Len(CandidatesEmToPt(p, word)) <= 4
                /\ NoDuplicates(CandidatesEmToPt(p, word))

\* The token is one or more of the marks . , ! ? ; :
IsPunctuationToken(tok) == tok # <<>> /\ \A i \in 1..Len(tok) : tok[i] \in PunctChars

\* The text of thread p is one token, and that a word.
OneWord(p) == Len(work[p].tokens) = 1 /\ ~IsPunctuationToken(work[p].tokens[1])

\* The string with its first character upper-cased and no other changed.
FirstUpper(str) ==
    IF str = <<>> THEN str ELSE <<UpperCh(str[1])>> \o SubSeq(str, 2, Len(str))

\* C4: for a text of one word token, the sentence is the candidates of the
\* token's lookup (at most 4, in the order of the lookup) joined by ", ", its
\* first character upper-cased and no other; with no candidate it is the
\* token itself, unchanged.
C4_SingleToken ==
    \A p \in Procs :
        (Translated(p) /\ OneWord(p)) =>
            LET tok == work[p].tokens[1]
                candidates == IF work[p].direction = "pt_to_em"
                              THEN CandidatesPtToEm(p, tok) ELSE CandidatesEmToPt(p, tok)
            IN  /\ Len(candidates) <= 4
                /\ ret[p] = IF candidates = <<>> THEN tok
                            ELSE FirstUpper(Join(<<",", " ">>, candidates))

\* A one-word text has been translated to several candidates, the first of
\* which got its capital letter.
C4_Witness ==
    \E p \in Procs :
        /\ Translated(p)
        /\ OneWord(p)
        /\ Len(work[p].built.infos[1].candidates) >= 2
        /\ ret[p] # Join(<<",", " ">>, work[p].built.infos[1].candidates)

\* The table of the documented examples: lexicon {"casa": ["nyumba"]}, no pronoun.
ExampleTable == Table(Row(Grammar), Row(PronounsB1), Row(LexiconB1))

\* translate("a casa .", "pt_to_em") with the example table has returned.
ExampleSentenceDone(p) ==
    /\ store = ExampleTable
    /\ req[p] = Request(<<"a", " ", "c", "a", "s", "a", " ", ".">>, "pt_to_em")
    /\ pc[p] = "done"

\* C5, as claimed: translate("a casa .", L1-to-L2) returns "A Nyumba.".
C5_ExampleAsClaimed ==
    \A p \in Procs :
        ExampleSentenceDone(p) => ret[p] = <<"A", " ", "N", "y", "u", "m", "b", "a", ".">>

\* C5, amended: translate("a casa .", L1-to-L2) returns "A nyumba.": the
\* unknown word "a" is passed through, "casa" is replaced by "nyumba", the
\* space before the mark is removed, and only the first letter of the sentence
\* gets a capital.
C5_ExampleSentence ==
    \A p \in Procs :
        ExampleSentenceDone(p) => ret[p] = <<"A", " ", "n", "y", "u", "m", "b", "a", ".">>

C5_Witness == \E p \in Procs : ExampleSentenceDone(p)

RECURSIVE IsSubsequence(_, _)
\* The entries of a occur in b, in the order of a.
IsSubsequence(a, b) ==
    IF a = <<>> THEN TRUE
    ELSE IF b = <<>> THEN FALSE
    ELSE IF Head(a) = Head(b) THEN IsSubsequence(Tail(a), Tail(b))
    ELSE IsSubsequence(a, Tail(b))

\* C6: every punctuation token of the text is in the sentence as it is, in
\* the order of the text, and no punctuation token is given to a lookup (so
\* none to the spelling corrector): the lookups made are those of the word
\* tokens, in their order, also when a mark is the only token.
C6_PunctuationPreserved ==
    \A p \in Procs :
        Translated(p) =>
            LET tokens == work[p].tokens
                built == work[p].built
            IN  /\ IsSubsequence(Concat(SelectSeq(tokens, IsPunctuationToken)), ret[p])
                /\ ~OneWord(p) =>
                      /\ Len(built.out_tokens) = Len(tokens)
                      /\ \A i \in 1..Len(tokens) :
                            IsPunctuationToken(tokens[i]) => built.out_tokens[i] = tokens[i]
                /\ [i \in 1..Len(built.infos) |-> built.infos[i].source]
                      = SelectSeq(tokens, LAMBDA tok : ~IsPunctuationToken(tok))

\* A text with a word between marks has been translated.
C6_Witness ==
    \E p \in Procs :
        /\ Translated(p)
        /\ Len(work[p].tokens) >= 3
        /\ IsPunctuationToken(work[p].tokens[1])
        /\ ~IsPunctuationToken(work[p].tokens[2])
        /\ IsPunctuationToken(work[p].tokens[Len(work[p].tokens)])

\* The key is in neither of the two indexes.
InNoIndex(key, lexicon, pronoun) == ~Has(lexicon, key) /\ ~Has(pronoun, key)

\* The normalized form of the token is a key of no index of the language the
\* text of thread p is translated from.
AbsentFromIndexes(p, tok) ==
    IF work[p].direction = "pt_to_em"
    THEN InNoIndex(_normalize_pt(tok), work[p].idx.lexicon_pt, work[p].idx.pronoun_pt)
    ELSE InNoIndex(EmKey(tok), work[p].idx.lexicon_em, work[p].idx.pronoun_em)

\* The same of the token as the lookup takes it: spelling-corrected from Portuguese.
AbsentAfterCorrection(p, tok) ==
    IF work[p].direction = "pt_to_em"
    THEN InNoIndex(_normalize_pt(correct_spelling_pt(tok, work[p].idx.spell_vocab_pt)),
                   work[p].idx.lexicon_pt, work[p].idx.pronoun_pt)
    ELSE InNoIndex(EmKey(tok), work[p].idx.lexicon_em, work[p].idx.pronoun_em)

\* a is b[k+1 .. k+Len(a)] for some k
IsSubstring(a, b) == \E k \in 0..(Len(b) - Len(a)) : SubSeq(b, k + 1, k + Len(a)) = a

IsPrefix(a, b) == Len(a) <= Len(b) /\ SubSeq(b, 1, Len(a)) = a

\* C7, as claimed: a word token whose normalized form is a key of no index of
\* the source language goes to the output as the original token.
C7_AbsentWordAsClaimed ==
    \A p \in Procs :
        Translated(p) =>
            \A i \in 1..Len(work[p].tokens) :
                LET tok == work[p].tokens[i]
                IN  (~IsPunctuationToken(tok) /\ AbsentFromIndexes(p, tok)) =>
                        IF OneWord(p) THEN ret[p] = tok
                        ELSE work[p].built.out_tokens[i] = tok /\ IsSubstring(tok, ret[p])

\* C7, amended: a word token for which the lookup finds nothing (from
\* Portuguese: the key of its spelling-corrected form is in no index; from
\* Emakua: its key is in no index) goes to the output as the original token:
\* as it is when it is the only token or not the first, and with the capital
\* letter of the sentence when it is the first of several. A call raises only
\* while it loads the resources, never because of a word.
C7_UnknownWordPassedThrough ==
    \A p \in Procs :
        /\ pc[p] = "raised" => Len(got[p]) < 3 /\ work[p] = NoWork
        /\ Translated(p) =>
            \A i \in 1..Len(work[p].tokens) :
                LET tok == work[p].tokens[i]
                IN  (~IsPunctuationToken(tok) /\ AbsentAfterCorrection(p, tok)) =>
                        IF OneWord(p) THEN ret[p] = tok
                        ELSE /\ work[p].built.out_tokens[i] = tok
                             /\ i = 1 => IsPrefix(FirstUpper(tok), ret[p])
                             /\ i > 1 => IsSubstring(tok, ret[p])

\* A sentence from Portuguese has a known word first and then a word that is
\* unknown also after correction, and written with a capital letter.
C7_Witness ==
    \E p \in Procs :
        /\ Translated(p)
        /\ work[p].direction = "pt_to_em"
        /\ Len(work[p].tokens) = 2
        /\ ~AbsentAfterCorrection(p, work[p].tokens[1])
        /\ ~IsPunctuationToken(work[p].tokens[2])
        /\ AbsentAfterCorrection(p, work[p].tokens[2])
        /\ Lower(work[p].tokens[2]) # work[p].tokens[2]

\* The least of a non-empty set of numbers.
Least(set) == CHOOSE x \in set : \A y \in set : x <= y

\* What correct(word, vocab) is to return.
CorrectionOf(word, vocab) ==
    LET norm == _normalize_pt(word)
        keys == Keys(vocab)
        dist == [i \in 1..Len(keys) |-> _levenshtein(norm, keys[i])]
        dmin == Least({dist[i] : i \in 1..Len(keys)})
        first == Least({i \in 1..Len(keys) : dist[i] = dmin})
    IN  IF \E i \in 1..Len(keys) : keys[i] = norm THEN Get(vocab, norm)
        ELSE IF keys = <<>> THEN Lower(word)
        ELSE IF dmin <= (IF Len(norm) <= 5 THEN 2 ELSE 3) THEN Get(vocab, keys[first])
        ELSE Lower(word)

\* C8: correct_spelling_pt returns the canonical word of the normalized input
\* when that is a key of the vocabulary; otherwise the canonical word of the
\* first key, in the order of the vocabulary, at the least Levenshtein distance
\* from the normalized input, when that distance is at most 2 for an input of
\* at most 5 characters and at most 3 for a longer one; otherwise, also with an
\* empty vocabulary, the lower-cased input. "caza" gives "casa" with the
\* vocabulary of "casa" alone.
C8_SpellingCorrection ==
    \A p \in Procs :
        Translated(p) =>
            /\ \A word \in Words :
                  correct_spelling_pt(word, work[p].idx.spell_vocab_pt)
                      = CorrectionOf(word, work[p].idx.spell_vocab_pt)
            /\ store = ExampleTable =>
                  correct_spelling_pt(w_caza, work[p].idx.spell_vocab_pt) = w_casa

\* The indexes are those of a vocabulary where two keys are at distance 1 of
\* "caza", and one where a word of 7 characters is at distance 3 of its nearest key.
C8_Witness ==
    \E p \in Procs :
        /\ Translated(p)
        /\ Has(work[p].idx.spell_vocab_pt, w_casa)
        /\ Has(work[p].idx.spell_vocab_pt, w_cama)
        /\ correct_spelling_pt(w_caza, work[p].idx.spell_vocab_pt) = w_casa
        /\ correct_spelling_pt(w_casaccc, work[p].idx.spell_vocab_pt) = w_casa
        /\ correct_spelling_pt(w_casacccc, work[p].idx.spell_vocab_pt) = w_casacccc

\* l1Count and l2Count of the tokens of thread p.
L1Count(p) ==
    Cardinality({i \in 1..Len(work[p].tokens) :
        /\ ~IsPunctuationToken(work[p].tokens[i])
        /\ ~InNoIndex(_normalize_pt(work[p].tokens[i]),
                      work[p].idx.lexicon_pt, work[p].idx.pronoun_pt)})

L2Count(p) ==
    Cardinality({i \in 1..Len(work[p].tokens) :
        /\ ~IsPunctuationToken(work[p].tokens[i])
        /\ ~InNoIndex(EmKey(work[p].tokens[i]),
                      work[p].idx.lexicon_em, work[p].idx.pronoun_em)})

\* C9: in auto mode the sentence is built from Emakua exactly when more word
\* tokens, uncorrected, are keys of the Emakua indexes than of the Portuguese
\* ones, and from Portuguese otherwise (so on a tie and when no token is
\* known); the sentence is always built in one of the two directions, the one
\* asked for when one is.
C9_DirectionDetection ==
    \A p \in Procs :
        Translated(p) =>
            /\ work[p].direction \in {"pt_to_em", "em_to_pt"}
            /\ req[p].direction # "auto" => work[p].direction = req[p].direction
            /\ req[p].direction = "auto" =>
                  work[p].direction = IF L2Count(p) > L1Count(p) THEN "em_to_pt"
                                      ELSE "pt_to_em"

\* In auto mode, a text with as many Emakua as Portuguese words, and not none,
\* has been translated from Portuguese.
C9_Witness ==
    \E p \in Procs :
        /\ Translated(p)
        /\ req[p].direction = "auto"
        /\ L1Count(p) = L2Count(p)
        /\ L1Count(p) > 0
        /\ work[p].direction = "pt_to_em"

\* C10, as claimed: the calls write no state that another call can read; the
\* provider's cache, which every call reads, stays as it was.
C10_NoSharedWriteAsClaimed ==
    \A name \in {GrammarName, PronounsName, LexiconName} : cache[name] = NoEntry

\* The sentence of the call of thread p run alone on the bundle it obtained.
AloneOnBundle(p) ==
    TranslateLoaded(req[p].text, req[p].direction,
                    [grammar |-> got[p][1], pronouns |-> got[p][2], lexicon |-> got[p][3]])

\* C10, amended: for any interleaving of translate calls, the only state a call
\* writes that another call can read is the provider's cache, and only with a
\* positive TTL; what a call has obtained it keeps to itself, so its result is
\* that of the call run alone on the bundle it obtained, whatever the other
\* call, the cache and the table have become since.
C10_ResultOfBundleObtained ==
    /\ ttl <= 0 => \A name \in {GrammarName, PronounsName, LexiconName} : cache[name] = NoEntry
    /\ \A name \in {GrammarName, PronounsName, LexiconName} :
          cache[name].present =>
              \E p \in Procs : calls[p].fetch[name] > 0 /\ cache[name].ts <= now
    /\ \A p \in Procs :
          Translated(p) =>
              /\ Len(got[p]) = 3
              /\ ret[p] = AloneOnBundle(p).built.sentence
              /\ work[p] = AloneOnBundle(p)

\* Both calls have translated "casa"; one was given the lexicon by the cache,
\* where the other call had put it, and the table has another lexicon by now.
C10_Witness ==
    \E p, q \in Procs :
        /\ p # q
        /\ Translated(p) /\ Translated(q)
        /\ calls[p].fetch[LexiconName] = 1
        /\ calls[q].get[LexiconName] = 1 /\ calls[q].fetch[LexiconName] = 0
        /\ store[LexiconName].found
        /\ Getter(LexiconName, store[LexiconName].metadata).value # got[q][3]
        /\ ret[q] # <<>>

\* Where x occurs first in the list.
FirstPos(x, list) == CHOOSE n \in 1..Len(list) : list[n] = x /\ \A m \in 1..(n - 1) : list[m] # x

\* The entries of the list are entries of seen, in the order seen has them first.
InFirstSeenOrder(list, seen) ==
    /\ \A i \in 1..Len(list) : In(list[i], seen)
    /\ \A i, j \in 1..Len(list) : i < j => FirstPos(list[i], seen) < FirstPos(list[j], seen)

\* The lexicon and the merged pronoun table that thread p built its indexes from.
LexiconOf(p) == got[p][3]

PronounsOf(p) == Merge(got[p][2].personal, got[p][2].possessive)

\* The kept forms of the lexicon items whose key normalizes to key, item by item.
SeenLexiconForms(p, key) ==
    Concat([i \in 1..Len(LexiconOf(p)) |->
               IF _normalize_pt(LexiconOf(p)[i].k) = key
               THEN CleanedForms(LexiconOf(p)[i].v) ELSE <<>>])

\* The same of the pronoun items.
SeenPronounForms(p, key) ==
    Concat([i \in 1..Len(PronounsOf(p)) |->
               IF _normalize_pt(PronounsOf(p)[i].k) = key
               THEN PronounForms(PronounsOf(p)[i].v) ELSE <<>>])

\* The form is one of the forms, by its Emakua key.
HasEmForm(forms, em_key) == \E j \in 1..Len(forms) : EmKey(forms[j]) = em_key

\* The raw keys of the lexicon items that have a form of Emakua key em_key.
SeenLexiconWords(p, em_key) ==
    Concat([i \in 1..Len(LexiconOf(p)) |->
               IF HasEmForm(CleanedForms(LexiconOf(p)[i].v), em_key)
               THEN <<LexiconOf(p)[i].k>> ELSE <<>>])

\* The same of the pronoun items.
SeenPronounWords(p, em_key) ==
    Concat([i \in 1..Len(PronounsOf(p)) |->
               IF HasEmForm(PronounForms(PronounsOf(p)[i].v), em_key)
               THEN <<PronounsOf(p)[i].k>> ELSE <<>>])

\* C11: every value list of the four indexes built from a bundle has no entry
\* twice and has its entries in the order the bundle shows them first.
C11_ValueListsDistinctFirstSeen ==
    \A p \in Procs :
        Translated(p) =>
            /\ \A i \in 1..Len(work[p].idx.lexicon_pt) :
                  /\ NoDuplicates(work[p].idx.lexicon_pt[i].v)
                  /\ InFirstSeenOrder(work[p].idx.lexicon_pt[i].v,
                                      SeenLexiconForms(p, work[p].idx.lexicon_pt[i].k))
            /\ \A i \in 1..Len(work[p].idx.lexicon_em) :
                  /\ NoDuplicates(work[p].idx.lexicon_em[i].v)
                  /\ InFirstSeenOrder(work[p].idx.lexicon_em[i].v,
                                      SeenLexiconWords(p, work[p].idx.lexicon_em[i].k))
            /\ \A i \in 1..Len(work[p].idx.pronoun_pt) :
                  /\ NoDuplicates(work[p].idx.pronoun_pt[i].v)
                  /\ InFirstSeenOrder(work[p].idx.pronoun_pt[i].v,
                                      SeenPronounForms(p, work[p].idx.pronoun_pt[i].k))
            /\ \A i \in 1..Len(work[p].idx.pronoun_em) :
                  /\ NoDuplicates(work[p].idx.pronoun_em[i].v)
                  /\ InFirstSeenOrder(work[p].idx.pronoun_em[i].v,
                                      SeenPronounWords(p, work[p].idx.pronoun_em[i].k))

\* No key of the dict is the empty string.
KeysNonEmpty(dict) == \A i \in 1..Len(dict) : dict[i].k # <<>>

\* C12: every key of the spelling vocabulary and of the four indexes built
\* from a bundle is a non-empty string.
C12_KeysNonEmpty ==
    \A p \in Procs :
        Translated(p) =>
            /\ KeysNonEmpty(work[p].idx.spell_vocab_pt)
            /\ KeysNonEmpty(work[p].idx.lexicon_pt)
            /\ KeysNonEmpty(work[p].idx.pronoun_pt)
            /\ KeysNonEmpty(work[p].idx.lexicon_em)
            /\ KeysNonEmpty(work[p].idx.pronoun_em)

\* Every entry of every value list of the dict is a string and not empty.
FormsNonEmptyStrings(dict) ==
    \A i \in 1..Len(dict) : \A j \in 1..Len(dict[i].v) :
        IsStr(dict[i].v[j]) /\ dict[i].v[j] # <<>>

\* C13: building the indexes drops the blank and the non-string raw forms, of
\* the lexicon and of the pronouns alike, and raises nothing: no value list of
\* an index has an empty string or a value that is not a string.
C13_BlankAndNonStringDropped ==
    \A p \in Procs :
        /\ pc[p] = "raised" => Len(got[p]) < 3
        /\ Translated(p) =>
              /\ FormsNonEmptyStrings(work[p].idx.lexicon_pt)
              /\ FormsNonEmptyStrings(work[p].idx.lexicon_em)
              /\ FormsNonEmptyStrings(work[p].idx.pronoun_pt)
              /\ FormsNonEmptyStrings(work[p].idx.pronoun_em)

\* C14: the entry of a key of the Portuguese pronoun index has the forms of
\* every raw key of the merged pronoun table that normalizes to it, as the
\* entry of the Portuguese lexicon index has, not those of one raw key only.
C14_PronounFormsAggregated ==
    \A p \in Procs :
        Translated(p) =>
            \A i \in 1..Len(work[p].idx.pronoun_pt) :
                LET seen == SeenPronounForms(p, work[p].idx.pronoun_pt[i].k)
                IN  \A j \in 1..Len(seen) : In(seen[j], work[p].idx.pronoun_pt[i].v)

\* The raw pronoun keys that the personal and the possessive table both have.
InBothTables(p) ==
    {got[p][2].personal[i].k : i \in 1..Len(got[p][2].personal)}
        \cap {got[p][2].possessive[i].k : i \in 1..Len(got[p][2].possessive)}

\* The raw key is the only one of the merged table with its normalized key.
OnlyRawKey(p, key) ==
    \A i \in 1..Len(PronounsOf(p)) :
        _normalize_pt(PronounsOf(p)[i].k) = _normalize_pt(key) => PronounsOf(p)[i].k = key

\* The pronoun is among the Portuguese pronouns of the Emakua form.
MapsBack(p, form, key) ==
    /\ Has(work[p].idx.pronoun_em, EmKey(form))
    /\ In(key, Get(work[p].idx.pronoun_em, EmKey(form)))

\* C15: for a raw pronoun key of both tables, the Portuguese pronoun index
\* maps the possessive forms, and the Emakua pronoun index maps each personal
\* and each possessive form back to the pronoun.
C15_PossessiveWinsBothMapBack ==
    \A p \in Procs :
        Translated(p) =>
            \A key \in InBothTables(p) :
                LET personal == PronounForms(Get(got[p][2].personal, key))
                    possessive == PronounForms(Get(got[p][2].possessive, key))
                IN  /\ (OnlyRawKey(p, key) /\ possessive # <<>>) =>
                          Get(work[p].idx.pronoun_pt, _normalize_pt(key)) = possessive
                    /\ \A j \in 1..Len(possessive) :
                          EmKey(possessive[j]) # <<>> => MapsBack(p, possessive[j], key)
                    /\ \A j \in 1..Len(personal) :
                          EmKey(personal[j]) # <<>> => MapsBack(p, personal[j], key)

\* C16: _levenshtein is a metric: d(a,b) = d(b,a); d(a,b) = 0 exactly when
\* a = b; d(a,c) <= d(a,b) + d(b,c).
C16_LevenshteinMetric ==
    lev.measured =>
        /\ lev.ab = lev.ba
        /\ lev.ab = 0 <=> lev.a = lev.b
        /\ lev.ac <= lev.ab + lev.bc
        /\ lev.ab >= 0

\* Three different strings of different lengths have been measured, and the
\* way from a to c by b is no longer than the straight one.
C16_Witness ==
    /\ lev.measured
    /\ Len(lev.a) < Len(lev.b) /\ Len(lev.a) > 0
    /\ lev.b # lev.c /\ lev.a # lev.c
    /\ lev.ab > 0 /\ lev.bc > 0
    /\ lev.ac = lev.ab + lev.bc

\* The names of the resources.
Names == {GrammarName, PronounsName, LexiconName}

\* The cache has an entry of the name that is younger than the TTL.
Fresh(name) == cache[name].present /\ now - cache[name].ts < ttl

\* In this step thread p enters _get_with_ttl(name) / gets the answer of
\* _fetch_resource(name).
Enters(p, name) == calls'[p].get[name] = calls[p].get[name] + 1

Fetches(p, name) == calls'[p].fetch[name] = calls[p].fetch[name] + 1

\* In this step the getter of thread p is given the data: it returns what it
\* makes of it to load_resources, or raises for a lexicon that is no object.
GivenData(p, name, data) ==
    IF Getter(name, data).ok
    THEN got'[p] = Append(got[p], Getter(name, data).value) /\ pc'[p] # "raised"
    ELSE got'[p] = got[p] /\ pc'[p] = "raised" /\ exc'[p] = InvalidLexicon

\* C17: the cache policy of _get_with_ttl. With a TTL <= 0 every call fetches
\* from the table and returns what it finds there, and the cache is not
\* written (nor read: what it holds has no part in the result). With a TTL > 0
\* a call returns the cached data without a fetch exactly when the name has an
\* entry of an age now - ts < TTL; otherwise it fetches and puts the data and
\* the time of its start in the entry. A fetch that fails leaves the cache as
\* it is, and nothing else writes the cache.
C17_CachePolicy ==
    [][\A p \in Procs, name \in Names :
          /\ (Enters(p, name) /\ ttl <= 0) =>
                /\ Fetches(p, name)
                /\ cache' = cache
                /\ IF store[name].found THEN GivenData(p, name, store[name].metadata)
                   ELSE pc'[p] = "raised" /\ exc'[p] = ResourceNotFound(name)
          /\ (Enters(p, name) /\ ttl > 0 /\ Fresh(name)) =>
                /\ ~Fetches(p, name)
                /\ gstep'[p] # "fetch"
                /\ cache' = cache
                /\ GivenData(p, name, cache[name].data)
          /\ (Enters(p, name) /\ ttl > 0 /\ ~Fresh(name)) =>
                /\ gstep'[p] = "fetch" /\ gnow'[p] = now
                /\ got'[p] = got[p]
                /\ cache' = cache
          /\ (Fetches(p, name) /\ ttl > 0) =>
                /\ cache' = cache
                /\ IF store[name].found
                   THEN gstep'[p] = "write" /\ gdata'[p] = store[name].metadata
                   ELSE pc'[p] = "raised" /\ exc'[p] = ResourceNotFound(name)
          /\ (gstep[p] = "write" /\ gstep'[p] # "write" /\ CurrentName(p) = name) =>
                /\ cache' = [cache EXCEPT ![name] =
                                [present |-> TRUE, ts |-> gnow[p], data |-> gdata[p]]]
                /\ GivenData(p, name, gdata[p])
          /\ cache'[name] # cache[name] =>
                \E q \in Procs : gstep[q] = "write" /\ gstep'[q] # "write" /\ ttl > 0
      ]_vars

\* With a cache of one second, a call has been given the grammar by the cache,
\* where the other call had put it in the same second, and has fetched the
\* pronouns a second later, after the other call.
C17_Witness ==
    \E p, q \in Procs :
        /\ p # q /\ ttl > 0
        /\ Translated(p) /\ Translated(q)
        /\ calls[p].fetch[GrammarName] = 1 /\ calls[p].fetch[PronounsName] = 1
        /\ calls[q].get[GrammarName] = 1 /\ calls[q].fetch[GrammarName] = 0
        /\ calls[q].fetch[PronounsName] = 1
        /\ cache[GrammarName].ts = 0 /\ cache[PronounsName].ts = 1

\* C19: with concurrent calls of _get_with_ttl for one name, the time of the
\* cache entry of the name never goes back, and the entry of a call that
\* started later is not replaced by the data of a call that started earlier.
C19_NewerEntryKept ==
    [][\A name \in Names :
          cache[name].present =>
              /\ cache'[name].present
              /\ cache'[name].ts >= cache[name].ts
              /\ \A p \in Procs :
                    (gstep[p] = "write" /\ CurrentName(p) = name /\ gnow[p] < cache[name].ts)
                        => cache'[name] = cache[name]
      ]_vars

\* The cache entry of the path a thread asks for has not expired.
Unexpired(p) ==
    /\ site_cache[site_call[p].path].present
    /\ site_cache[site_call[p].path].expires_at > site_call[p].now

\* The thread's call ends with a response.
Answered(p) == site_call[p].at # "idle" /\ site_call'[p].at = "idle" /\ resp'.n = resp.n + 1

\* The thread's request is answered from the cache alone.
FromCache(p) ==
    /\ Answered(p)
    /\ resp'.source = "cache"
    /\ resp'.status = 200
    /\ resp'.content = site_cache[site_call[p].path].content
    /\ resp'.requests = 0
    /\ ~resp'.looked
    /\ site_call[p].remote = NoRemote
    /\ site_cache' = site_cache

\* The thread's request, answered otherwise, went to Supabase first, to the
\* directory only when Supabase had nothing, and was answered 404 with the
\* cache as it was when the directory had nothing either.
FromOrigin(p) ==
    /\ resp'.source # "cache"
    /\ site_cfg.supabase_url => resp'.requests >= 1
    /\ resp'.looked => site_call[p].remote.kind = "none"
    /\ resp'.source = "local" => resp'.looked /\ resp'.content = "f1"
    /\ resp'.source = "supabase" => ~resp'.looked /\ resp'.content \in {"v1", "v3"}
    /\ site_call[p].at = "local" => resp'.status = 404 /\ site_cache' = site_cache

\* The thread looks in the directory only after Supabase had nothing.
SupabaseFirst(p) ==
    /\ (site_call'[p].at = "local" /\ site_call[p].at # "local")
           => site_call[p].at \in {"fetch", "retry"} /\ site_call'[p].remote.kind = "none"
    /\ site_call'[p].looked /\ ~site_call[p].looked => site_call[p].at = "local"

\* The cache changes for one path only, to the content of a 200 response.
CachedOnSuccess ==
    site_cache' # site_cache =>
        /\ resp'.n = resp.n + 1
        /\ resp'.status = 200
        /\ \A other \in SitePaths \ {resp'.path} : site_cache'[other] = site_cache[other]
        /\ site_cache'[resp'.path].present
        /\ site_cache'[resp'.path].content = resp'.content

\* C18: over any sequence of requests to the static-asset proxy, a request
\* is answered from the in-memory cache, without a request to Supabase or a
\* look at the local fallback directory, exactly when the cache has an entry
\* for the path with expires_at > now at the time the request looks it up;
\* otherwise Supabase is tried first and the local directory only when
\* Supabase yields nothing; when both yield nothing the response is 404 and
\* the request leaves the cache unchanged, so that only successful responses
\* are cached.
C18_ProxyCache ==
    [][/\ \A p \in Procs :
             /\ site_call[p].at = "begun" /\ site_call'[p].at # "begun"
                    => IF Unexpired(p) THEN FromCache(p)
                       ELSE site_call'[p].at = "fetch" /\ resp' = resp
             /\ Answered(p) /\ site_call[p].at # "begun" => FromOrigin(p)
             /\ SupabaseFirst(p)
       /\ CachedOnSuccess]_vars

\* A request was answered from the cache with the content of a file of the
\* local directory: an earlier request found nothing at Supabase, fell back to
\* the directory and was cached.
C18_Witness == resp.source = "cache" /\ resp.content = "f1" /\ resp.n >= 2

====
